---- MODULE Spec2Model ----
(***************************************************************************)
(* Model of the bTB map viewer session (btbwgstool/gui.py, with the older  *)
(* btbgenietool/gui.py variant where the two agree): the sample, movement  *)
(* and parcel datasets held by App, the clade list, the sample table, the  *)
(* active subset and what a redraw puts on the map.                        *)
(*                                                                         *)
(* A data frame is a sequence of rows (records); a column is a field.      *)
(* A point geometry is <<x, y>>, the empty geometry is <<>>.  A handler    *)
(* that raises stops where it raises: what it assigned before stays, and   *)
(* err records that it raised.                                             *)
(***************************************************************************)
EXTENDS Integers, Sequences, FiniteSets, TLC

\* ---------------------------------------------------------------- bounds
MaxSamples == 3     \* rows in a loaded sample dataset
MaxCoord == 2       \* map coordinates are 0..MaxCoord
MaxPicked == 2      \* cells selected in the sample table
MaxClicks == 4      \* handlers run in one session
MaxMoves == 2       \* records in a movement dataset
MaxWorkers == 2     \* background workers started in one session

\* ------------------------------------------------------- generic helpers
Range(s) == {s[i] : i \in 1..Len(s)}

RECURSIVE FlatMap(_, _)
\* concatenation of F[s[1]], F[s[2]], ... (F a function from rows to sequences)
FlatMap(F, s) == IF s = <<>> THEN <<>> ELSE F[Head(s)] \o FlatMap(F, Tail(s))

RECURSIVE SeqsUpTo(_, _)
\* all sequences over S of length 0..n
SeqsUpTo(S, n) ==
    IF n = 0 THEN {<<>>}
    ELSE LET shorter == SeqsUpTo(S, n - 1)
         IN  shorter \cup {Append(q, x) : q \in {r \in shorter : Len(r) = n - 1}, x \in S}

\* the strings that occur as column values, in the order of Python's str comparison
StrOrder ==
    <<"-1", "A", "B", "C", "Clare", "Cork", "D", "E", "F", "G", "H", "H1", "H2", "H3",
      "H9", "I", "J", "K", "Kerry", "X", "a01", "a02", "a03", "a04", "a05", "a06", "a07",
      "a08", "a09", "a10", "a11", "a12", "a13", "a14", "a15", "a16", "a17", "a18", "a19",
      "a20", "a21", "a22", "a23", "a24", "a25", "a26", "a27", "a28", "a29", "a30", "a31",
      "s1", "s2", "s3">>
StrRank == [x \in Range(StrOrder) |-> CHOOSE i \in 1..Len(StrOrder) : StrOrder[i] = x]

RECURSIVE InsertBy(_, _, _)
\* insert row r into the sorted sequence s after every row that is not greater
InsertBy(Less(_, _), r, s) ==
    IF s = <<>> THEN <<r>>
    ELSE IF Less(r, Head(s)) THEN <<r>> \o s
    ELSE <<Head(s)>> \o InsertBy(Less, r, Tail(s))

\* stable sort: rows that compare equal keep their original order; a row goes
\* to the place after the rows that are less and the equal rows met before it
SortBy(Less(_, _), s) ==
    LET v == s \o <<>>
        place == [i \in 1..Len(v) |->
                    1 + Cardinality({j \in 1..Len(v) :
                                        \/ Less(v[j], v[i])
                                        \/ j < i /\ ~Less(v[i], v[j])})] \o <<>>
    IN  [p \in 1..Len(v) |-> v[CHOOSE i \in 1..Len(v) : place[i] = p]] \o <<>>

\* ------------------------------------------------------------- geometry
Empty == <<>>
Coords == 0..MaxCoord
is_empty(g) == g = Empty

\* ------------------------------------------------------------- datasets
cladelevels == {"snp3", "snp12"}
counties == {"Clare", "Cork", "Kerry"}
Sentinel == "-1"

\* the coarser clustering joins the snp3 clades A and B
Coarse(c) == IF c = Sentinel THEN Sentinel ELSE "X"
CountyOf(g) == IF is_empty(g) THEN "Kerry" ELSE IF g[1] = 0 THEN "Cork" ELSE "Clare"
HerdOf(i) == CASE i = "s1" -> "H1" [] i = "s2" -> "H2" [] OTHER -> "H3"
SpeciesOf(i) == CASE i = "s1" -> "Bovine" [] i = "s2" -> "Badger" [] OTHER -> "Deer"

\* one row of the sample dataset (self.cent), indexed by id
Sample(i, g, c) ==
    [id |-> i, geometry |-> g, snp3 |-> c, snp12 |-> Coarse(c),
     County |-> CountyOf(g), HERD_NO |-> HerdOf(i), Animal_ID |-> i,
     Species |-> SpeciesOf(i)]

SampleDomain ==
    {Sample("s1", <<0, 0>>, "A"), Sample("s2", <<1, 2>>, "A"),
     Sample("s2", <<2, 1>>, "B"), Sample("s3", Empty, "B"),
     Sample("s3", <<1, 1>>, Sentinel)}

Datasets == SeqsUpTo(SampleDomain, MaxSamples)

\* movement records (self.moves) and parcel centroids (self.lpis_cent) of
\* the project files: s1 moved to H1 and to H9 (no parcel), s2 only to H9
Move(t, h, d) == [tag |-> t, move_to |-> h, move_date |-> d]
Parcel(h, g) == [SPH_HERD_N |-> h, geometry |-> g]
ProjectMoves == <<Move("s1", "H9", 1), Move("s1", "H2", 3), Move("s1", "H1", 2),
                  Move("s2", "H9", 1)>>
ProjectParcels == <<Parcel("H1", <<0, 1>>), Parcel("H2", <<2, 2>>), Parcel("H3", <<1, 0>>)>>

\* ------------------------------------------------------------ clade list
\* the distinct values of a column in order of first appearance
unique(vals) ==
    LET v == vals \o <<>>
        firsts == SelectSeq([i \in 1..Len(v) |-> i],
                            LAMBDA i : \A j \in 1..(i - 1) : v[j] # v[i])
    IN  [k \in 1..Len(firsts) |-> v[firsts[k]]] \o <<>>

Column(df, col) == [i \in 1..Len(df) |-> df[i][col]]
CountOf(vals, v) == Cardinality({i \in 1..Len(vals) : vals[i] = v})

BySizeDesc(a, b) == a.size > b.size

\* Series.value_counts(): one entry per distinct value, largest count first,
\* equal counts in order of first appearance
value_counts(vals) ==
    LET u == unique(vals)
    IN  SortBy(BySizeDesc, [i \in 1..Len(u) |-> [name |-> u[i], size |-> CountOf(vals, u[i])]])

MoreThanOne(e) == e.size > 1

\* App.update_clades: the items put into the clade tree widget
update_clades(df, lvl) == SelectSeq(value_counts(Column(df, lvl)), MoreThanOne)

\* get_cluster_samples: the rows of the clusters with at least n members, the
\* '-1' rows left out, sorted by the cluster column
get_cluster_samples(df, col, n) ==
    LET v == SelectSeq(value_counts(Column(df, col)), LAMBDA e : e.size >= n)
        clusts == {v[i].name : i \in 1..Len(v)}
        g == SelectSeq(SelectSeq(df, LAMBDA r : r[col] # "-1"), LAMBDA r : r[col] \in clusts)
    IN  SortBy(LAMBDA a, b : StrRank[a[col]] < StrRank[b[col]], g)

\* ------------------------------------------------------------- selection
\* cent[cent[level].isin(clades)]
SelectCladeWrongLevel(df, lvl, clades) == SelectSeq(df, LAMBDA r : r["snp3"] \in clades)
SelectClade(df, lvl, clades) == SelectSeq(df, LAMBDA r : r[lvl] \in clades)

\* cent[cent.County == county]
SelectCounty(df, county) == SelectSeq(df, LAMBDA r : r.County = county)

\* df.cx[xmin:xmax, ymin:ymax]: the rows whose geometry intersects the box
InBoxOpen(g, xmin, xmax, ymin, ymax) ==
    /\ ~is_empty(g)
    /\ xmin < g[1] /\ g[1] < xmax
    /\ ymin < g[2] /\ g[2] < ymax
InBox(g, xmin, xmax, ymin, ymax) ==
    /\ ~is_empty(g)
    /\ xmin <= g[1] /\ g[1] <= xmax
    /\ ymin <= g[2] /\ g[2] <= ymax
SelectRegion(df, xmin, xmax, ymin, ymax) ==
    SelectSeq(df, LAMBDA r : InBox(r.geometry, xmin, xmax, ymin, ymax))

\* DataFrameTable.getSelectedRows: list(dict.fromkeys(rows)), the distinct
\* rows in order of first selection
getSelectedRows(picked) == unique(picked)

\* df.index[rows]: the index labels shown at the selected table positions
IndexAt(tbl, rows) == [i \in 1..Len(rows) |-> tbl[rows[i]].id]

\* cent.loc[idx]: for each label in turn, every row of cent carrying it
Loc(df, idx) ==
    FlatMap([l \in Range(idx) |-> SelectSeq(df, LAMBDA r : r.id = l)], idx)
LocRaises(df, idx) == \E l \in Range(idx) : \A i \in 1..Len(df) : df[i].id # l

\* DataFrameModel.sort: df.sort_values(col, ascending)
sort_values(df, col, ascending) ==
    IF ascending THEN SortBy(LAMBDA a, b : StrRank[a[col]] < StrRank[b[col]], df)
                 ELSE SortBy(LAMBDA a, b : StrRank[a[col]] > StrRank[b[col]], df)

\* ----------------------------------------------------- movement resolver
NaN == <<-1>>          \* a missing value left by a join or a concat
NoTag == "NaN"         \* a missing Animal_ID
notnull(g) == g # NaN

\* df.merge(move_df, left_on='Animal_ID', right_on='tag', how='inner')[cols]
JoinMoves(df, move_df) ==
    FlatMap([r \in Range(df) |->
                LET mine == SelectSeq(move_df, LAMBDA mv : mv.tag = r.Animal_ID)
                IN  [i \in 1..Len(mine) |->
                        [Animal_ID |-> r.Animal_ID, HERD_NO |-> r.HERD_NO,
                         move_to |-> mine[i].move_to, move_date |-> mine[i].move_date]]],
            df)

\* a join that puts a herd without a parcel at the map origin
JoinParcelsFilled(t, parcels) ==
    FlatMap([r \in Range(t) |->
                LET at == SelectSeq(parcels, LAMBDA pc : pc.SPH_HERD_N = r.move_to)
                IN  IF at = <<>>
                    THEN <<[Animal_ID |-> r.Animal_ID, HERD_NO |-> r.HERD_NO,
                            move_to |-> r.move_to, move_date |-> r.move_date,
                            SPH_HERD_N |-> "NaN", geometry |-> <<0, 0>>]>>
                    ELSE [i \in 1..Len(at) |->
                            [Animal_ID |-> r.Animal_ID, HERD_NO |-> r.HERD_NO,
                             move_to |-> r.move_to, move_date |-> r.move_date,
                             SPH_HERD_N |-> at[i].SPH_HERD_N, geometry |-> at[i].geometry]]],
            t)
\* t.merge(lpis_cent, left_on='move_to', right_on='SPH_HERD_N', how='left')
JoinParcels(t, parcels) ==
    FlatMap([r \in Range(t) |->
                LET at == SelectSeq(parcels, LAMBDA pc : pc.SPH_HERD_N = r.move_to)
                IN  IF at = <<>>
                    THEN <<[Animal_ID |-> r.Animal_ID, HERD_NO |-> r.HERD_NO,
                            move_to |-> r.move_to, move_date |-> r.move_date,
                            SPH_HERD_N |-> "NaN", geometry |-> NaN]>>
                    ELSE [i \in 1..Len(at) |->
                            [Animal_ID |-> r.Animal_ID, HERD_NO |-> r.HERD_NO,
                             move_to |-> r.move_to, move_date |-> r.move_date,
                             SPH_HERD_N |-> at[i].SPH_HERD_N, geometry |-> at[i].geometry]]],
            t)

\* lpis_cent[lpis_cent.SPH_HERD_N.isin(df.HERD_NO)] as rows of the concat:
\* the parcel rows have no Animal_ID, HERD_NO, move_to or move_date
CurrentHerdRows(df, parcels) ==
    LET x == SelectSeq(parcels, LAMBDA pc : \E i \in 1..Len(df) : df[i].HERD_NO = pc.SPH_HERD_N)
    IN  [i \in 1..Len(x) |->
            [Animal_ID |-> NoTag, HERD_NO |-> "NaN", move_to |-> "NaN", move_date |-> 0,
             SPH_HERD_N |-> x[i].SPH_HERD_N, geometry |-> x[i].geometry]]

dropna(m) == SelectSeq(m, LAMBDA r : r.Animal_ID # NoTag)

\* an order that groups the rows by animal and ignores the dates
ByTagOnly(a, b) == StrRank[a.Animal_ID] < StrRank[b.Animal_ID]
\* sort_values(by=['Animal_ID','move_date'])
ByTagThenDate(a, b) ==
    \/ StrRank[a.Animal_ID] < StrRank[b.Animal_ID]
    \/ a.Animal_ID = b.Animal_ID /\ a.move_date < b.move_date

None == [isNone |-> TRUE, rows |-> <<>>]
Frame(rows) == [isNone |-> FALSE, rows |-> rows]

\* App.get_moves_bytag
get_moves_bytag(df, move_df, parcels) ==
    LET t == JoinMoves(df, move_df)
        m == JoinParcels(t, parcels)
    IN  IF Len(m) = 0 THEN None
        ELSE Frame(SortBy(ByTagThenDate, dropna(m \o CurrentHerdRows(df, parcels))))

\* a pairing that keeps the last row, whose successor is missing
get_coords_data_untrimmed(t) ==
    [i \in 1..Len(t) |-> <<t[i].geometry, IF i < Len(t) THEN t[i + 1].geometry ELSE NaN>>]
\* get_coords_data: one LineString per row and its successor
get_coords_data(t) == [i \in 1..(Len(t) - 1) |-> <<t[i].geometry, t[i + 1].geometry>>]

NumColors == 30

KeepAllRows(m) == m
\* moves[moves.geometry.notnull()]
Resolved(m) == SelectSeq(m, LAMBDA r : notnull(r.geometry))

\* moves.groupby('Animal_ID'): one group per tag, in tag order
GroupTags(m) == SortBy(LAMBDA a, b : StrRank[a] < StrRank[b], unique(Column(m, "Animal_ID")))

RECURSIVE DrawGroups(_, _, _, _)
\* the loop of App.plot_moves from group number k on, i lines drawn so far
DrawGroups(m, tags, k, i) ==
    IF k > Len(tags) THEN [groups |-> <<>>, raised |-> FALSE]
    ELSE LET t == SelectSeq(m, LAMBDA r : r.Animal_ID = tags[k])
             coords == get_coords_data(t)
             entry == [tag |-> tags[k], waypoints |-> Column(t, "geometry"),
                       coords |-> coords, color |-> IF Len(coords) > 0 THEN i ELSE -1]
         IN  IF Len(coords) > 0 /\ i >= NumColors
             THEN [groups |-> <<>>, raised |-> TRUE]
             ELSE LET rest == DrawGroups(m, tags, k + 1, IF Len(coords) > 0 THEN i + 1 ELSE i)
                  IN  [groups |-> <<entry>> \o rest.groups, raised |-> rest.raised]

\* App.plot_moves: the groups the loop went through, each with its waypoints
\* and the line segments drawn for it
plot_moves(mov) ==
    IF mov.isNone THEN [groups |-> <<>>, raised |-> FALSE]
    ELSE LET m == Resolved(mov.rows)
         IN  DrawGroups(m, GroupTags(m), 1, 0)

\* ------------------------------------------------------------ the session
VARIABLES
    cent,        \* self.cent: the full sample dataset
    moves,       \* self.moves: the movement dataset
    lpis,        \* self.lpis: the land parcels (herd numbers)
    lpis_cent,   \* self.lpis_cent: the parcel centroids
    has,         \* the attributes among cent, moves, lpis, lpis_cent, sub that hold data
    table,       \* self.meta_table.model.df: the rows of the sample table as shown
    cladew,      \* the items of the clade tree widget
    level,       \* self.cladelevelw.currentText()
    sub,         \* self.sub: the active subset
    title,       \* self.title
    opts,        \* the checked map buttons
    parcels,     \* self.parcels
    dispTitle,   \* the suptitle on the figure
    traces,      \* the movement traces of the last redraw
    movesTable,  \* the rows of the 'moves' dock table
    err,         \* the last handler raised
    sel,         \* history: the selection action that assigned sub, with its arguments
    colorcol,    \* self.colorbyw.currentText()
    labelcol,    \* self.labelsw.currentText()
    points,      \* the sample markers of the last redraw
    labels,      \* the annotations of the last redraw
    message,     \* the axes show 'no locations available'
    grid,        \* the grid cells of the last hexbin plot
    last,        \* history: the last handler run
    clicks,      \* history: the number of handlers run so far
    running,     \* self.running
    bar,         \* the progress bar: "idle" (range 0,1) or "busy" (range 0,0)
    gui,         \* where the GUI thread is inside make_test_data, or idle in the event loop
    workers,     \* the Worker objects handed to the thread pool, in order of creation
    events,      \* the slot calls queued for the GUI thread, by worker
    folder,      \* the test data folder: "absent", "partial" or "written"
    loads        \* history: what each load_folder of make_test_data found

vars == <<cent, moves, lpis, lpis_cent, has, table, cladew, level, sub, title, opts,
          parcels, dispTitle, traces, movesTable, err, sel, colorcol, labelcol, points,
          labels, message, grid, last, clicks,
          running, bar, gui, workers, events, folder, loads>>

\* the state of the background processing
threads == <<running, bar, gui, workers, events, folder, loads>>
\* the state of the session
session == <<cent, moves, lpis, lpis_cent, has, table, cladew, level, sub, title, opts,
             parcels, dispTitle, traces, movesTable, err, sel, colorcol, labelcol, points,
             labels, message, grid, last, clicks>>

\* the session as one record, so that a handler is a function from session to session
app ==
    [cent |-> cent, moves |-> moves, lpis |-> lpis, lpis_cent |-> lpis_cent, has |-> has,
     table |-> table, cladew |-> cladew, level |-> level, sub |-> sub, title |-> title,
     opts |-> opts, parcels |-> parcels, dispTitle |-> dispTitle, traces |-> traces,
     movesTable |-> movesTable, err |-> err, sel |-> sel, colorcol |-> colorcol,
     labelcol |-> labelcol, points |-> points, labels |-> labels, message |-> message,
     grid |-> grid, last |-> last]

\* one more handler has run and left the session as s
Becomes(s) ==
    /\ clicks < MaxClicks /\ clicks' = clicks + 1
    /\ cent' = s.cent /\ moves' = s.moves /\ lpis' = s.lpis /\ lpis_cent' = s.lpis_cent
    /\ has' = s.has /\ table' = s.table /\ cladew' = s.cladew /\ level' = s.level
    /\ sub' = s.sub /\ title' = s.title /\ opts' = s.opts /\ parcels' = s.parcels
    /\ dispTitle' = s.dispTitle /\ traces' = s.traces /\ movesTable' = s.movesTable
    /\ err' = s.err /\ sel' = s.sel /\ last' = s.last
    /\ colorcol' = s.colorcol /\ labelcol' = s.labelcol /\ points' = s.points
    /\ labels' = s.labels /\ message' = s.message /\ grid' = s.grid
    /\ UNCHANGED threads

NoTitle == [kind |-> "none"]
NoSel == [mode |-> "none"]

\* a handler starts: nothing raised yet
Enter(s, op) == [s EXCEPT !.err = FALSE, !.last = [op |-> op]]
Raise(s) == [s EXCEPT !.err = TRUE]

\* App.__init__: no dataset attribute but lpis_cent = None, an empty table
Constructed ==
    [cent |-> <<>>, moves |-> <<>>, lpis |-> <<>>, lpis_cent |-> <<>>, has |-> {},
     table |-> <<>>, cladew |-> <<>>, level |-> "snp3", sub |-> <<>>, title |-> NoTitle,
     opts |-> {}, parcels |-> <<>>, dispTitle |-> NoTitle, traces |-> <<>>,
     movesTable |-> <<>>, err |-> FALSE, sel |-> NoSel, colorcol |-> "", labelcol |-> "",
     points |-> <<>>, labels |-> <<>>, message |-> FALSE, grid |-> <<>>,
     last |-> [op |-> "init"]]

\* ----------------------------------------------------------------- redraw
JitterDeltas == {-1, 1}

\* jitter_points: an empty point stays empty, any other point moves by (a, b)
jitter_points(g, d) == IF is_empty(g) THEN Empty ELSE <<g[1] + d[1], g[2] + d[2]>>

\* the offsets np.random.normal can give the rows of df, kept on the map
JitterChoices(df) ==
    {j \in [1..Len(df) -> JitterDeltas \X JitterDeltas] :
        \A i \in 1..Len(df) :
            LET g == jitter_points(df[i].geometry, j[i])
            IN  is_empty(g) \/ (g[1] \in Coords /\ g[2] \in Coords)}

\* App.get_parcels
get_parcels(s) == SelectSeq(s.lpis, LAMBDA pc : \E i \in 1..Len(s.sub) : s.sub[i].HERD_NO = pc.SPH_HERD_N)

\* update(), land parcels
UpdateParcels(s) ==
    IF s.err \/ "parcels" \notin s.opts THEN s
    ELSE IF "sub" \notin s.has \/ "lpis" \notin s.has THEN Raise(s)
    ELSE [s EXCEPT !.parcels = get_parcels(s)]

\* a jitter that writes through to the rows of the full dataset, as it would
\* if the subset were a view of it
UpdateJitterInPlace(s, j, emptyRaises) ==
    IF s.err \/ "jitter" \notin s.opts THEN s
    ELSE IF "sub" \notin s.has THEN Raise(s)
    ELSE IF s.sub = <<>> THEN (IF emptyRaises THEN Raise(s) ELSE s)
    ELSE LET moved == [i \in 1..Len(s.sub) |->
                         [s.sub[i] EXCEPT !.geometry = jitter_points(@, j[i])]]
         IN  [s EXCEPT !.sub = moved,
                       !.cent = [i \in 1..Len(@) |->
                                   IF \E k \in 1..Len(moved) : moved[k].id = @[i].id
                                   THEN CHOOSE r \in Range(moved) : r.id = @[i].id
                                   ELSE @[i]]]
\* update(), self.sub['geometry'] = self.sub.apply(jitter_points)
\* (on a subset without rows apply() gives back a frame, and whether assigning
\* it to the column raises depends on the pandas at hand: emptyRaises)
UpdateJitter(s, j, emptyRaises) ==
    IF s.err \/ "jitter" \notin s.opts THEN s
    ELSE IF "sub" \notin s.has THEN Raise(s)
    ELSE IF s.sub = <<>> THEN (IF emptyRaises THEN Raise(s) ELSE s)
    ELSE [s EXCEPT !.sub = [i \in 1..Len(s.sub) |->
                              [s.sub[i] EXCEPT !.geometry = jitter_points(@, j[i])]]]

RECURSIVE GCD(_, _)
GCD(a, b) == IF b = 0 THEN a ELSE GCD(b, a % b)

\* the colour a colormap gives category number code of n categories: the
\* position code / (n - 1) on the colormap, as a reduced fraction
CmapColor(code, n) ==
    IF n = 1 \/ code = 0 THEN [pos |-> <<0, 1>>]
    ELSE [pos |-> <<code \div GCD(code, n - 1), (n - 1) \div GCD(code, n - 1)>>]
Named(c) == [name |-> c]

\* GeoDataFrame.plot(column=col, cmap=cmap): the categories are the sorted
\* distinct values of the column in the frame that is plotted
Categories(df, col) == SortBy(LAMBDA a, b : StrRank[a] < StrRank[b], unique(Column(df, col)))
CodeOf(cats, v) == (CHOOSE i \in 1..Len(cats) : cats[i] = v) - 1
\* a marker: where it is drawn, the category value it stands for and its colour
Marker(r, v, c) == [id |-> r.id, xy |-> r.geometry, value |-> v, color |-> c]

\* a plot that also draws the rows without coordinates, at the origin
NotEmptyAtOrigin(df) ==
    [i \in 1..Len(df) |-> IF is_empty(df[i].geometry) THEN [df[i] EXCEPT !.geometry = <<0, 0>>]
                          ELSE df[i]]
\* df[~df.is_empty]
NotEmpty(df) == SelectSeq(df, LAMBDA r : ~is_empty(r.geometry))

\* plot_single_cluster: the markers drawn, or the 'no locations available' title
plot_single_cluster(df0, col) ==
    LET df1 == NotEmpty(df0)
        df == SelectSeq(df1, LAMBDA r : r.Species \in {"Bovine", "Badger"})
        cow == SelectSeq(df, LAMBDA r : r.Species = "Bovine")
        badger == SelectSeq(df, LAMBDA r : r.Species = "Badger")
        cats == Categories(cow, col)
    IN  IF Len(df1) = 0 THEN [message |-> TRUE, points |-> <<>>]
        ELSE IF col = ""
        THEN [message |-> FALSE,
              points |-> [i \in 1..Len(df) |->
                            Marker(df[i], df[i].Species, IF df[i].Species = "Bovine" THEN Named("blue")
                                          ELSE Named("orange"))]]
        ELSE [message |-> FALSE,
              points |-> [i \in 1..Len(cow) |->
                            Marker(cow[i], cow[i][col], CmapColor(CodeOf(cats, cow[i][col]), Len(cats)))]
                         \o [i \in 1..Len(badger) |-> Marker(badger[i], "Badger", Named("orange"))]]

\* update(), plot_single_cluster(self.sub, ...)
UpdatePoints(s) ==
    IF s.err THEN s
    ELSE IF "sub" \notin s.has THEN Raise(s)
    ELSE LET drawn == plot_single_cluster(s.sub, s.colorcol)
         IN  [s EXCEPT !.points = drawn.points, !.message = drawn.message]

\* App.show_labels: one annotation per row of the subset, at its point; the x
\* and y of a point without coordinates are NaN
show_labels(df, col) ==
    IF col = "" THEN <<>>
    ELSE [i \in 1..Len(df) |->
            [text |-> df[i][col],
             xy |-> IF is_empty(df[i].geometry) THEN NaN ELSE df[i].geometry]]

\* update(), self.show_labels(labelcol)
UpdateLabels(s) ==
    IF s.err THEN s ELSE [s EXCEPT !.labels = show_labels(s.sub, s.labelcol)]

\* update(), moves
UpdateMoves(s) ==
    IF s.err \/ "moves" \notin s.opts THEN s
    ELSE IF "moves" \notin s.has \/ "lpis_cent" \notin s.has THEN Raise(s)
    ELSE LET mov == get_moves_bytag(s.sub, s.moves, s.lpis_cent)
             drawn == plot_moves(mov)
             s1 == [s EXCEPT !.traces = drawn.groups]
         IN  IF drawn.raised THEN Raise(s1)
             ELSE IF mov.isNone THEN s1
             ELSE [s1 EXCEPT !.movesTable = mov.rows]

\* update(), fig.suptitle(self.title)
UpdateTitle(s) ==
    IF s.err \/ s.title = NoTitle THEN s ELSE [s EXCEPT !.dispTitle = s.title]

\* App.update: the redraw; j are the jitter offsets drawn for the rows
Update(s, j, emptyRaises) ==
    LET cleared == [s EXCEPT !.traces = <<>>, !.dispTitle = NoTitle, !.points = <<>>,
                             !.labels = <<>>, !.message = FALSE, !.grid = <<>>]
    IN  UpdateTitle(UpdateMoves(UpdateLabels(UpdatePoints(
            UpdateJitter(UpdateParcels(cleared), j, emptyRaises)))))

\* the nondeterminism of one redraw of session s
Redraws(s) ==
    IF "jitter" \in s.opts /\ "sub" \in s.has
    THEN {Update(s, j, e) : j \in JitterChoices(s.sub),
                            e \in IF s.sub = <<>> THEN BOOLEAN ELSE {FALSE}}
    ELSE {Update(s, <<>>, FALSE)}

\* ------------------------------------------------------------ grid binning
CellSize == 2

\* the cell of the grid a point lies within
CellOf(g) == <<g[1] \div CellSize, g[2] \div CellSize>>

Min(S) == CHOOSE x \in S : \A y \in S : x <= y
Max(S) == CHOOSE x \in S : \A y \in S : x >= y

\* plotting.create_grid: the cells that cover the bounding box of the points,
\* in row-major order
create_grid(gdf) ==
    LET pts == {gdf[i].geometry : i \in {k \in 1..Len(gdf) : ~is_empty(gdf[k].geometry)}}
        xs == {CellOf(g)[1] : g \in pts}
        ys == {CellOf(g)[2] : g \in pts}
        nx == Max(xs) - Min(xs) + 1
        ny == Max(ys) - Min(ys) + 1
    IN  IF pts = {} THEN <<>>
        ELSE [n \in 1..(nx * ny) |-> <<Min(xs) + ((n - 1) \div ny), Min(ys) + ((n - 1) % ny)>>]

\* plotting.get_color_mapping: the sorted distinct values of the column, each
\* with its palette index
get_color_mapping(gdf, col) == Categories(gdf, col)

\* gpd.sjoin(gdf, grid, how='left', predicate='within'): every row with the
\* number of the cell its point lies within, 0 for a row that lies in no cell
sjoin(gdf, cells) ==
    [i \in 1..Len(gdf) |->
        [row |-> gdf[i],
         index_right |-> IF is_empty(gdf[i].geometry) THEN 0
                         ELSE IF \E n \in 1..Len(cells) : cells[n] = CellOf(gdf[i].geometry)
                              THEN CHOOSE n \in 1..Len(cells) : cells[n] = CellOf(gdf[i].geometry)
                              ELSE 0]]

\* aggtop over the rows joined to cell n: the most common value, the first
\* seen among equally common ones
aggtop(merged, n, col) ==
    LET mine == SelectSeq(merged, LAMBDA mr : mr.index_right = n)
    IN  value_counts([i \in 1..Len(mine) |-> mine[i].row[col]])[1].name

\* the grid as it is plotted when the cells without colour are kept
AllCells(cells) == cells
\* grid[~grid.color.isnull()]
ColoredCells(cells) == SelectSeq(cells, LAMBDA c : c.value # "NaN")

NumCommon == 10

\* plot_hexbin: the cells drawn, each with its dominant value and colour
plot_hexbin(gdf0, col) ==
    LET gdf1 == SelectSeq(gdf0, LAMBDA r : r[col] # "-1")
        vc == value_counts(Column(gdf1, col))
        common == {vc[i].name : i \in {k \in 1..Len(vc) : k <= NumCommon}}
        gdf == SelectSeq(gdf1, LAMBDA r : r[col] \in common)
        cells == create_grid(gdf)
        merged == sjoin(gdf, cells)
        snpmap == get_color_mapping(gdf, col)
        joined == {merged[i].index_right : i \in 1..Len(merged)} \ {0}
        valued == [n \in 1..Len(cells) |->
                     LET v == IF n \in joined THEN aggtop(merged, n, col) ELSE "NaN"
                     IN  [cell |-> cells[n], value |-> v,
                          color |-> IF v = "NaN" THEN -1 ELSE CodeOf(snpmap, v)]]
    IN  ColoredCells(valued)

\* ------------------------------------------------------- project loading
AllKeys == {"cent", "moves", "lpis", "lpis_cent"}

\* a project file: a pickled dict of datasets
Project(d, mv, pc) ==
    [keys |-> AllKeys, cent |-> d, moves |-> mv, lpis |-> pc, lpis_cent |-> pc]

\* the project files of the session scenario; the second was saved without a
\* movement dataset
Projects ==
    {Project(<<Sample("s1", <<0, 0>>, "A"), Sample("s2", <<1, 2>>, "A")>>,
             ProjectMoves, ProjectParcels),
     [Project(<<Sample("s3", Empty, "B"), Sample("s2", <<2, 1>>, "B")>>,
              <<>>, ProjectParcels) EXCEPT !.keys = AllKeys \ {"moves"}]}

\* App.load_project (with the new_project() it starts with)
load_project(s0, p) ==
    LET s == Enter(s0, "load_project")
        cleared == [s EXCEPT !.table = <<>>]
        loaded == [cleared EXCEPT
                      !.cent = IF "cent" \in p.keys THEN p.cent ELSE @,
                      !.moves = IF "moves" \in p.keys THEN p.moves ELSE @,
                      !.lpis = IF "lpis" \in p.keys THEN p.lpis ELSE @,
                      !.lpis_cent = IF "lpis_cent" \in p.keys THEN p.lpis_cent ELSE @,
                      !.has = @ \cup p.keys]
    IN  IF "cent" \notin loaded.has THEN Raise(loaded)
        ELSE [loaded EXCEPT !.table = loaded.cent,
                            !.cladew = update_clades(loaded.cent, loaded.level),
                            !.colorcol = ""]

\* ------------------------------------------------------ selection handlers
CladeTitle(lvl, clades, n) == [kind |-> "clade", level |-> lvl, clades |-> clades, n |-> n]
CountyTitle(county) == [kind |-> "county", county |-> county]
TableTitle(n) == [kind |-> "table", n |-> n]

\* plot_selected_clade without its return on an empty selection
SelectedCladeNoReturn(s0, clades) ==
    LET s == [Enter(s0, "plot_selected_clade") EXCEPT
                 !.last = [op |-> "plot_selected_clade", clades |-> clades]]
        picked == SelectClade(s.cent, s.level, clades)
    IN  IF "cent" \notin s.has THEN Raise(s)
        ELSE [s EXCEPT !.sub = picked, !.has = @ \cup {"sub"},
                       !.title = CladeTitle(s.level, clades, Len(picked)),
                       !.sel = [mode |-> "clade", level |-> s.level, clades |-> clades]]

\* App.plot_selected_clade up to the redraw; clades are the selected items
SelectedClade(s0, clades) ==
    LET s == [Enter(s0, "plot_selected_clade") EXCEPT
                 !.last = [op |-> "plot_selected_clade", clades |-> clades]]
    IN  IF "cent" \notin s.has THEN Raise(s)
        ELSE IF clades = {} THEN s
        ELSE LET picked == SelectClade(s.cent, s.level, clades)
             IN  [s EXCEPT !.sub = picked, !.has = @ \cup {"sub"},
                           !.title = CladeTitle(s.level, clades, Len(picked)),
                           !.sel = [mode |-> "clade", level |-> s.level, clades |-> clades]]

\* App.plot_county up to the redraw
SelectedCounty(s0, county) ==
    LET s == Enter(s0, "plot_county")
    IN  IF "cent" \notin s.has THEN Raise(s)
        ELSE [s EXCEPT !.sub = SelectCounty(s.cent, county), !.has = @ \cup {"sub"},
                       !.title = CountyTitle(county),
                       !.sel = [mode |-> "county", county |-> county]]

\* App.plot_table_selection up to the redraw; picked are the rows of the
\* selected cells, in selection order
SelectedTable(s0, picked) ==
    LET s == Enter(s0, "plot_table_selection")
        idx == IndexAt(s.table, getSelectedRows(picked))
    IN  IF "cent" \notin s.has \/ LocRaises(s.cent, idx) THEN Raise(s)
        ELSE LET rows == Loc(s.cent, idx)
             IN  [s EXCEPT !.sub = rows, !.has = @ \cup {"sub"},
                           !.title = TableTitle(Len(rows)),
                           !.sel = [mode |-> "table",
                                    shown |-> [i \in 1..Len(idx) |->
                                                 s.table[getSelectedRows(picked)[i]]]]]

\* App.plot_in_region up to the redraw; box is <<xmin, xmax, ymin, ymax>>
SelectedRegion(s0, box) ==
    LET s == Enter(s0, "plot_in_region")
    IN  IF "cent" \notin s.has THEN Raise(s)
        ELSE [s EXCEPT !.sub = SelectRegion(s.cent, box[1], box[2], box[3], box[4]),
                       !.has = @ \cup {"sub"},
                       !.sel = [mode |-> "region", box |-> box]]

\* a selection handler ends with self.update(), unless it has returned or raised
ThenRedraw(s, returned) == IF s.err \/ returned THEN {s} ELSE Redraws(s)

\* ------------------------------------------------------------- the steps
Options == {"jitter", "parcels", "moves"}
SortCols == {"County", "snp3"}
\* the axes limits <<xmin, xmax, ymin, ymax>> the map can be zoomed to
Boxes == {b \in Coords \X Coords \X Coords \X Coords : b[1] < b[2] /\ b[3] < b[4]}
CladeNames == {cladew[i].name : i \in 1..Len(cladew)}

\* ---------------------------------------------------- background workers
\* App.__init__: running is False, the thread pool is empty, the bar is idle
NoThreads ==
    /\ running = FALSE /\ bar = "idle" /\ gui = [pc |-> "idle"]
    /\ workers = <<>> /\ events = <<>> /\ folder = "absent" /\ loads = <<>>

\* Worker(fn=process): not yet run, nothing connected to its signals
NewWorker ==
    [pc |-> "queued", outcome |-> "none", emitted |-> <<>>, connected |-> FALSE, calls |-> 0]

\* a run() whose finished signal is emitted only when the task returned
run_without_finally(outcome) ==
    IF outcome = "raised" THEN <<"error">> ELSE <<"result", "finished">>
\* Worker.run: the signals it emits after the task, in order
run(outcome) ==
    IF outcome = "raised" THEN <<"error", "finished">> ELSE <<"result", "finished">>

\* make_test_data up to threadpool.start(worker), in the GUI thread: a folder
\* is chosen and run_threaded_process returns at once if running is True
MakeTestData ==
    /\ gui.pc = "idle" /\ Len(workers) < MaxWorkers
    /\ IF running
       THEN gui' = [pc |-> "load"] /\ UNCHANGED workers
       ELSE /\ workers' = Append(workers, NewWorker)
            /\ gui' = [pc |-> "connect", w |-> Len(workers) + 1]
    /\ UNCHANGED <<session, running, bar, events, folder, loads>>

\* run_threaded_process: worker.signals.finished.connect(on_complete)
ConnectFinished ==
    /\ gui.pc = "connect"
    /\ workers' = [workers EXCEPT ![gui.w].connected = TRUE]
    /\ gui' = [gui EXCEPT !.pc = "setrange"]
    /\ UNCHANGED <<session, running, bar, events, folder, loads>>

\* run_threaded_process: self.progressbar.setRange(0,0)
SetBusy ==
    /\ gui.pc = "setrange"
    /\ bar' = "busy"
    /\ gui' = [pc |-> "load"]
    /\ UNCHANGED <<session, running, workers, events, folder, loads>>

\* make_test_data: self.load_folder(path), still in the same handler
LoadFolder ==
    /\ gui.pc = "load"
    /\ loads' = Append(loads, [folder |-> folder,
                               worker |-> IF workers = <<>> THEN "none"
                                          ELSE workers[Len(workers)].pc])
    /\ gui' = [pc |-> "idle"]
    /\ UNCHANGED <<session, running, bar, workers, events, folder>>

\* a pool thread takes the worker and calls the task, which starts to write
\* the folder, or raises before it has written anything
TaskStarts(w) ==
    /\ workers[w].pc = "queued"
    /\ \/ /\ workers' = [workers EXCEPT ![w].pc = "task"]
          /\ folder' = "partial"
       \/ /\ workers' = [workers EXCEPT ![w].pc = "emit", ![w].outcome = "raised"]
          /\ UNCHANGED folder
    /\ UNCHANGED <<session, running, bar, gui, events, loads>>

\* the task returns with the folder written, or raises half-way
TaskEnds(w) ==
    /\ workers[w].pc = "task"
    /\ \/ /\ workers' = [workers EXCEPT ![w].pc = "emit", ![w].outcome = "returned"]
          /\ folder' = "written"
       \/ /\ workers' = [workers EXCEPT ![w].pc = "emit", ![w].outcome = "raised"]
          /\ UNCHANGED folder
    /\ UNCHANGED <<session, running, bar, gui, events, loads>>

\* Worker.run emits its next signal; a finished signal reaches the slot that
\* is connected at that moment, as a call queued for the GUI thread
Emits(w) ==
    /\ workers[w].pc = "emit"
    /\ LET signals == run(workers[w].outcome)
           n == Len(workers[w].emitted) + 1
       IN  /\ workers' = [workers EXCEPT
                             ![w].emitted = Append(@, signals[n]),
                             ![w].pc = IF n = Len(signals) THEN "done" ELSE "emit"]
           /\ events' = IF signals[n] = "finished" /\ workers[w].connected
                        THEN Append(events, w) ELSE events
    /\ UNCHANGED <<session, running, bar, gui, folder, loads>>

\* the event loop of the GUI thread delivers a queued call: processing_completed
ProcessingCompleted ==
    /\ gui.pc = "idle" /\ events # <<>>
    /\ bar' = "idle" /\ running' = FALSE
    /\ workers' = [workers EXCEPT ![Head(events)].calls = @ + 1]
    /\ events' = Tail(events)
    /\ UNCHANGED <<session, gui, folder, loads>>

\* the session starts as s
StartsAs(s) ==
    /\ cent = s.cent /\ moves = s.moves /\ lpis = s.lpis /\ lpis_cent = s.lpis_cent
    /\ has = s.has /\ table = s.table /\ cladew = s.cladew /\ level = s.level
    /\ sub = s.sub /\ title = s.title /\ opts = s.opts /\ parcels = s.parcels
    /\ dispTitle = s.dispTitle /\ traces = s.traces /\ movesTable = s.movesTable
    /\ err = s.err /\ sel = s.sel /\ last = s.last
    /\ colorcol = s.colorcol /\ labelcol = s.labelcol /\ points = s.points
    /\ labels = s.labels /\ message = s.message /\ grid = s.grid
    /\ clicks = 0
    /\ NoThreads

Init == StartsAs(Constructed)

LoadProject == \E p \in Projects : Becomes(load_project(app, p))

\* the session after opening a project with the map buttons o checked
Loaded(p, o) == load_project([Constructed EXCEPT !.opts = o], p)

PlotSelectedClade ==
    /\ "cent" \in has
    /\ \E clades \in SUBSET CladeNames :
         \E s \in ThenRedraw(SelectedClade(app, clades), clades = {}) : Becomes(s)

PlotCounty ==
    \E county \in counties : \E s \in ThenRedraw(SelectedCounty(app, county), FALSE) : Becomes(s)

PlotTableSelection ==
    \E picked \in SeqsUpTo(1..Len(table), MaxPicked) :
        \E s \in ThenRedraw(SelectedTable(app, picked), FALSE) : Becomes(s)

PlotInRegion ==
    \E box \in Boxes : \E s \in ThenRedraw(SelectedRegion(app, box), FALSE) : Becomes(s)

\* a checkable map button is clicked: it changes state and update() runs
ToggleOption ==
    \E o \in Options :
        LET s == [Enter(app, "update") EXCEPT
                     !.opts = IF o \in @ THEN @ \ {o} ELSE @ \cup {o}]
        IN  \E t \in Redraws(s) : Becomes(t)

\* the refresh button: update()
Refresh == \E t \in Redraws(Enter(app, "update")) : Becomes(t)

ColorCols == {"", "snp3"}
LabelCols == {"", "HERD_NO"}

\* another column is chosen in the 'color by' combo box (no redraw)
ChangeColorBy ==
    \E c \in ColorCols \ {colorcol} :
        Becomes([Enter(app, "colorby") EXCEPT !.colorcol = c])

\* another column is chosen in the 'labels' combo box (no redraw)
ChangeLabels ==
    \E c \in LabelCols \ {labelcol} :
        Becomes([Enter(app, "labels") EXCEPT !.labelcol = c])

\* the hexbin button: replot(kind='hexbin') draws the grid of the subset
\* (whether it raises for a subset without any point to bin is left open)
ReplotHexbin ==
    LET s == [Enter(app, "replot_hexbin") EXCEPT
                 !.traces = <<>>, !.dispTitle = NoTitle, !.points = <<>>, !.labels = <<>>,
                 !.message = FALSE, !.grid = <<>>]
    IN  IF "sub" \notin s.has THEN Becomes(Raise(s))
        ELSE LET drawn == plot_hexbin(s.sub, "snp3")
             IN  \/ Becomes([s EXCEPT !.grid = drawn])
                 \/ drawn = <<>> /\ Becomes(Raise(s))

\* DataFrameTable.sort on the sample table
SortTable ==
    \E col \in SortCols, ascending \in BOOLEAN :
        Becomes([Enter(app, "sort") EXCEPT !.table = sort_values(@, col, ascending)])

\* the clade level combo box changes: update_clades()
ChangeLevel ==
    \E l \in cladelevels \ {level} :
        LET s == [Enter(app, "update_clades") EXCEPT !.level = l]
        IN  Becomes(IF "cent" \notin s.has THEN Raise(s)
                    ELSE [s EXCEPT !.cladew = update_clades(s.cent, l)])

Next ==
    \/ LoadProject
    \/ PlotSelectedClade
    \/ PlotCounty
    \/ PlotTableSelection
    \/ PlotInRegion
    \/ ToggleOption
    \/ Refresh
    \/ SortTable
    \/ ChangeLevel
    \/ ChangeColorBy
    \/ ChangeLabels

Spec == Init /\ [][Next]_vars

\* ------------------------------------------- selection over all datasets
\* a project of any sample dataset is open, no map button checked
InitLoaded ==
    \E d \in Datasets : StartsAs(Loaded(Project(d, ProjectMoves, ProjectParcels), {}))

SpecRegion == InitLoaded /\ [][PlotInRegion]_vars

NextClade ==
    \/ PlotSelectedClade
    \/ ChangeLevel

SpecClade == InitLoaded /\ [][NextClade]_vars

NextTable ==
    \/ PlotTableSelection
    \/ SortTable

SpecTable == InitLoaded /\ [][NextTable]_vars

\* ------------------------------------------ movements over all move sets
\* the movement records a movement dataset is drawn from: H9 has no parcel
MoveDomain ==
    {Move("s1", "H1", 1), Move("s1", "H9", 2), Move("s1", "H2", 2),
     Move("s2", "H1", 1), Move("s2", "H9", 3)}
MovedSamples ==
    <<Sample("s1", <<0, 0>>, "A"), Sample("s2", <<1, 2>>, "A"), Sample("s3", <<1, 1>>, "B")>>
\* parcel centroids: one parcel per herd, or two parcels of herd H1
ParcelSets == {ProjectParcels, <<Parcel("H1", <<0, 1>>), Parcel("H1", <<2, 0>>)>>}

\* a project with any movement dataset is open, the moves button checked
InitMoves ==
    \E mv \in SeqsUpTo(MoveDomain, MaxMoves), pc \in ParcelSets :
        StartsAs(Loaded(Project(MovedSamples, mv, pc), {"moves"}))

SpecMoves == InitMoves /\ [][PlotTableSelection]_vars

\* --------------------------------------------------- colours of the cows
\* three cattle samples of the clades A, B and unclustered
ColorSamples ==
    <<Sample("s1", <<0, 0>>, "A"), [Sample("s2", <<1, 2>>, "B") EXCEPT !.Species = "Bovine"],
      [Sample("s3", <<1, 1>>, Sentinel) EXCEPT !.Species = "Bovine"]>>

\* the project of the cattle samples is open
InitColor == StartsAs(Loaded(Project(ColorSamples, ProjectMoves, ProjectParcels), {}))

NextColor ==
    \/ PlotTableSelection
    \/ PlotCounty
    \/ PlotInRegion
    \/ ChangeColorBy

SpecColor == InitColor /\ [][NextColor]_vars

\* ------------------------------------------------- binning of the subset
NextHexbin ==
    \/ PlotCounty
    \/ PlotSelectedClade
    \/ ReplotHexbin

SpecHexbin == InitLoaded /\ [][NextHexbin]_vars

\* ------------------------------------------- samples without coordinates
\* the samples of a project whose points lie on the lower edge of the map
FrameSamples == <<Sample("s1", <<0, 0>>, "A"), Sample("s2", <<1, 0>>, "A")>>

\* the project is open with the jitter, parcels and moves buttons checked, and
\* every operation that selects, redraws, resolves movements or bins is run
InitFrame == StartsAs(Loaded(Project(FrameSamples, ProjectMoves, ProjectParcels), Options))

NextFrame ==
    \/ PlotSelectedClade
    \/ PlotCounty
    \/ PlotTableSelection
    \/ PlotInRegion
    \/ ReplotHexbin

SpecFrame == InitFrame /\ [][NextFrame]_vars

\* a dataset with eleven clades: ten of two samples each, spread over three
\* corners of the map, and clade K of one sample, alone in the fourth corner
CommonClades == <<"A", "B", "C", "D", "E", "F", "G", "H", "I", "J">>
Corners == <<(<<2, 2>>), (<<0, 2>>), (<<2, 0>>)>>
ManySamples ==
    [n \in 1..21 |->
        IF n = 21 THEN Sample("s1", <<0, 0>>, "K")
        ELSE Sample("s1", Corners[1 + (n % 3)], CommonClades[(n + 1) \div 2])]

\* the project of these samples is open; subsets are selected by county or by
\* region and binned
InitCommon == StartsAs(Loaded(Project(ManySamples, ProjectMoves, ProjectParcels), {}))

NextCommon ==
    \/ PlotCounty
    \/ PlotInRegion
    \/ ReplotHexbin

SpecCommon == InitCommon /\ [][NextCommon]_vars

\* a dataset with one animal more than the palette has colours, each with one
\* movement to herd H1, which has two parcels: every animal has one segment
PaletteTags ==
    <<"a01", "a02", "a03", "a04", "a05", "a06", "a07", "a08", "a09", "a10", "a11", "a12",
      "a13", "a14", "a15", "a16", "a17", "a18", "a19", "a20", "a21", "a22", "a23", "a24",
      "a25", "a26", "a27", "a28", "a29", "a30", "a31">>
PaletteSamples ==
    [n \in 1..(NumColors + 1) |-> Sample(PaletteTags[n], <<n % 3, (n \div 3) % 3>>, "A")]
PaletteMoves == [n \in 1..(NumColors + 1) |-> Move(PaletteTags[n], "H1", 1)]
TwoParcels == <<Parcel("H1", <<0, 1>>), Parcel("H1", <<2, 0>>)>>

\* the project of these animals is open with the moves button checked
InitPalette == StartsAs(Loaded(Project(PaletteSamples, PaletteMoves, TwoParcels), {"moves"}))

NextPalette ==
    \/ PlotSelectedClade
    \/ PlotCounty
    \/ PlotInRegion

SpecPalette == InitPalette /\ [][NextPalette]_vars

\* the GUI thread and the pool threads, in any interleaving
NextThreads ==
    \/ MakeTestData
    \/ ConnectFinished
    \/ SetBusy
    \/ LoadFolder
    \/ \E w \in 1..Len(workers) : TaskStarts(w)
    \/ \E w \in 1..Len(workers) : TaskEnds(w)
    \/ \E w \in 1..Len(workers) : Emits(w)
    \/ ProcessingCompleted

SpecThreads == Init /\ [][NextThreads]_vars

\* a dataset in which the first sample has no coordinates
EmptySamples == <<Sample("s1", Empty, "B"), Sample("s2", <<2, 1>>, "B")>>

\* the project of these samples is open, with any column chosen for the labels
\* and the jitter button checked or not
InitDraw ==
    \E c \in LabelCols, o \in SUBSET {"jitter"} :
        StartsAs([Loaded(Project(EmptySamples, ProjectMoves, ProjectParcels), o)
                     EXCEPT !.labelcol = c])

NextDraw ==
    \/ PlotCounty
    \/ PlotInRegion
    \/ PlotSelectedClade
    \/ Refresh

SpecDraw == InitDraw /\ [][NextDraw]_vars

\* ---------------------------------------------------------------- claims
\* a row of the subset is the sample r of the dataset (its point may have moved)
SameSample(a, r) == [a EXCEPT !.geometry = Empty] = [r EXCEPT !.geometry = Empty]

\* the dataset row i has a point in the closed box of the last region selection
InsideLimits(i) ==
    /\ cent[i].geometry # Empty
    /\ sel.box[1] <= cent[i].geometry[1] /\ cent[i].geometry[1] <= sel.box[2]
    /\ sel.box[3] <= cent[i].geometry[2] /\ cent[i].geometry[2] <= sel.box[4]

\* C3: after a region selection the subset holds every sample of the dataset
\* whose point lies in [xmin,xmax] x [ymin,ymax], bounds included, and no
\* sample whose point lies outside the box.
C3_RegionInclusive ==
    sel.mode = "region" =>
        /\ "sub" \in has
        /\ \A i \in 1..Len(cent) :
               InsideLimits(i) => \E k \in 1..Len(sub) : SameSample(sub[k], cent[i])
        /\ \A k \in 1..Len(sub) :
               \E i \in 1..Len(cent) : InsideLimits(i) /\ SameSample(sub[k], cent[i])
        /\ Len(sub) = Cardinality({i \in 1..Len(cent) : InsideLimits(i)})

\* a region selection with a point on its xmin edge, a point on its ymax edge
\* and a point outside the box
C3_Witness ==
    /\ sel.mode = "region" /\ last.op = "plot_in_region" /\ ~err
    /\ \E i \in 1..Len(cent) : InsideLimits(i) /\ cent[i].geometry[1] = sel.box[1]
    /\ \E i \in 1..Len(cent) : InsideLimits(i) /\ cent[i].geometry[2] = sel.box[4]
    /\ \E i \in 1..Len(cent) : cent[i].geometry # Empty /\ ~InsideLimits(i)

\* the dataset rows whose value in the level column of the last clade
\* selection is one of the selected labels
Chosen == {i \in 1..Len(cent) : cent[i][sel.level] \in sel.clades}

\* C1: after a clade selection with selected labels the subset is exactly the
\* samples of the dataset whose value in the selected level column is one of
\* the labels: all of them, no other, in dataset order.
C1_CladeSelection ==
    sel.mode = "clade" =>
        /\ "sub" \in has
        /\ Len(sub) = Cardinality(Chosen)
        /\ \A k \in 1..Len(sub) :
               \E i \in Chosen : /\ SameSample(sub[k], cent[i])
                                 /\ Cardinality({h \in Chosen : h < i}) = k - 1

\* a clade selection that takes some samples of the dataset and leaves others
C1_Witness ==
    /\ sel.mode = "clade" /\ last.op = "plot_selected_clade" /\ ~err
    /\ Len(sub) > 0 /\ Len(sub) < Len(cent)

EmptyCladeSelection == last.op = "plot_selected_clade" /\ last.clades = {}

\* C2 as claimed: a clade selection with no label makes the empty subset the
\* active subset, without an error.
C2_EmptyYieldsEmptySubset ==
    EmptyCladeSelection => "sub" \in has /\ sub = <<>> /\ ~err

\* C2 as the code has it: a clade selection with no label returns at once;
\* the active subset (or its absence) and the title stay as they were, and
\* no error is raised.
C2_EmptyLeavesSubset ==
    [][EmptyCladeSelection' => (sub' = sub /\ has' = has /\ title' = title /\ ~err')]_vars

\* the selection was cleared while a non-empty subset was active
C2_Witness == EmptyCladeSelection /\ "sub" \in has /\ sub # <<>> /\ ~err

RECURSIVE SumSizes(_)
SumSizes(items) == IF items = <<>> THEN 0 ELSE Head(items).size + SumSizes(Tail(items))

Sentinels == {"-1", ""}

\* the per-clade counts update_clades takes from the level column
CladeCounts == value_counts(Column(cent, level))

\* C7: the per-clade counts behind the clade list have no entry for the
\* unclustered label, and sum to the number of samples minus the unclustered
\* ones.
C7_CountsExcludeSentinel ==
    "cent" \in has =>
        /\ \A i \in 1..Len(CladeCounts) : CladeCounts[i].name \notin Sentinels
        /\ \A i \in 1..Len(cladew) : cladew[i].name \notin Sentinels
        /\ SumSizes(CladeCounts)
             = Len(cent) - Cardinality({i \in 1..Len(cent) : cent[i][level] \in Sentinels})

\* the labels of the level column with at least n samples, unclustered left out
Members(n) ==
    {c \in Range(Column(cent, level)) \ Sentinels : CountOf(Column(cent, level), c) >= n}

\* the labels of the rows get_cluster_samples returns, in row order
ClusterLabels(n) == unique(Column(get_cluster_samples(cent, level, n), level))

\* names is the list of the clustered labels with at least n samples, larger
\* clades first and equal-sized clades in label order
IsMemberList(names, n) ==
    /\ Range(names) = Members(n)
    /\ Len(names) = Cardinality(Members(n))
    /\ \A i \in 1..Len(names), k \in 1..Len(names) :
           i < k => \/ CountOf(Column(cent, level), names[i]) > CountOf(Column(cent, level), names[k])
                    \/ /\ CountOf(Column(cent, level), names[i]) = CountOf(Column(cent, level), names[k])
                       /\ StrRank[names[i]] < StrRank[names[k]]

\* C8: the cluster-member list of a level, as the clade list shows it (at
\* least 2 samples) and as get_cluster_samples gives it for a minimum size,
\* holds exactly the clustered labels with at least that many samples, ordered
\* by count descending and then by label ascending.
C8_ClusterMembers ==
    "cent" \in has =>
        /\ IsMemberList([i \in 1..Len(cladew) |-> cladew[i].name], 2)
        /\ \A n \in 1..2 : IsMemberList(ClusterLabels(n), n)

\* C4: after a table selection the subset has exactly one row per distinct
\* selected table row, the sample shown at that position, in selection order.
C4_OneRowPerPick ==
    last.op = "plot_table_selection" =>
        /\ ~err /\ sel.mode = "table" /\ "sub" \in has
        /\ Len(sub) = Len(sel.shown)
        /\ \A k \in 1..Len(sub) : k <= Len(sel.shown) => sub[k] = sel.shown[k]

\* C5: a redraw (a map button toggled, or refresh) leaves the active subset,
\* rows and geometries, as it was.
C5_RedrawKeepsSubset ==
    [][last'.op = "update" => (sub' = sub /\ ("sub" \in has') = ("sub" \in has))]_vars

\* the title on the figure is the one of the selection that made the subset
TitleOfSelection ==
    /\ dispTitle.kind = sel.mode
    /\ dispTitle.kind = "clade" =>
          /\ dispTitle.level = sel.level /\ dispTitle.clades = sel.clades
          /\ dispTitle.n = Len(sub)
    /\ dispTitle.kind = "county" => dispTitle.county = sel.county
    /\ dispTitle.kind = "table" => dispTitle.n = Len(sub)

\* C6: whenever a title is shown with the map, it is the title derived from the
\* selection action that produced the active subset, never one of an earlier
\* selection.
C6_TitleNeverStale ==
    (dispTitle # NoTitle /\ sel.mode # "none") => TitleOfSelection

\* the map shows the movements of the subset of the last table selection
MovesShown == last.op = "plot_table_selection" /\ "moves" \in opts

HasParcel(h) == \E p \in 1..Len(lpis_cent) : lpis_cent[p].SPH_HERD_N = h
\* the movement records of an animal whose destination has a parcel centroid
ResolvableMoves(tag) == {i \in 1..Len(moves) : moves[i].tag = tag /\ HasParcel(moves[i].move_to)}
UnresolvableMoves(tag) == {i \in 1..Len(moves) : moves[i].tag = tag /\ ~HasParcel(moves[i].move_to)}
SubsetTags == {sub[k].Animal_ID : k \in 1..Len(sub)}
TraceOf(tag) == {e \in 1..Len(traces) : traces[e].tag = tag}

\* C9: every trace entry belongs to an animal of the subset that has at least
\* one movement to a herd with a parcel centroid, and has waypoints; animals
\* without such a movement have no entry at all.
C9_TraceOnlyIfResolvable ==
    (MovesShown /\ ~err) =>
        /\ \A e \in 1..Len(traces) :
               /\ traces[e].tag \in SubsetTags
               /\ ResolvableMoves(traces[e].tag) # {}
               /\ traces[e].waypoints # <<>>
        /\ \A tag \in SubsetTags : ResolvableMoves(tag) = {} => TraceOf(tag) = {}

\* a trace is drawn for one selected animal while the other selected animal,
\* whose only movements go to a herd without parcel, has no entry
C9_Witness ==
    /\ MovesShown /\ ~err /\ traces # <<>>
    /\ \E tag \in SubsetTags :
           /\ UnresolvableMoves(tag) # {} /\ ResolvableMoves(tag) = {}
           /\ TraceOf(tag) = {}

\* the <<movement, parcel>> pairs that give an animal its waypoints
Resolutions(tag) ==
    {ip \in ResolvableMoves(tag) \X (1..Len(lpis_cent)) :
        lpis_cent[ip[2]].SPH_HERD_N = moves[ip[1]].move_to}

\* C10: drawing the movements raises no error; an animal's trace has one
\* waypoint per resolved movement and parcel, each the centroid of a parcel of
\* the destination, and none for a movement to a herd without parcel; every
\* resolvable movement of the animal is on its trace.
C10_UnresolvableDropped ==
    MovesShown =>
        /\ ~err
        /\ \A tag \in SubsetTags :
               ResolvableMoves(tag) # {} =>
                   /\ Cardinality(TraceOf(tag)) = 1
                   /\ \A e \in TraceOf(tag) :
                          LET w == traces[e].waypoints
                          IN  /\ Len(w) = Cardinality(Resolutions(tag))
                              /\ \A k \in 1..Len(w) :
                                     \E ip \in Resolutions(tag) : w[k] = lpis_cent[ip[2]].geometry
                              /\ \A ip \in Resolutions(tag) :
                                     \E k \in 1..Len(w) : w[k] = lpis_cent[ip[2]].geometry

\* a selected animal with one movement to a herd without parcel and one to a
\* herd with a parcel has a trace
C10_Witness ==
    /\ MovesShown /\ ~err
    /\ \E tag \in SubsetTags :
           /\ UnresolvableMoves(tag) # {} /\ ResolvableMoves(tag) # {}
           /\ TraceOf(tag) # {}

CentroidOf(h) == (CHOOSE p \in Range(lpis_cent) : p.SPH_HERD_N = h).geometry

\* animal s2 of herd H2 moved to H1 on date 1 and to H9 on date 3; H1 and H2
\* have a parcel centroid and H9 has none; the map shows the moves of s2
MovedH1ThenH9 ==
    /\ MovesShown /\ ~err
    /\ "s2" \in SubsetTags
    /\ moves \in {<<Move("s2", "H1", 1), Move("s2", "H9", 3)>>,
                  <<Move("s2", "H9", 3), Move("s2", "H1", 1)>>}
    /\ lpis_cent = ProjectParcels

\* C12: for an animal that moved to a herd with a centroid (date 1) and to a
\* herd without one (date 3), and whose current herd has a centroid, the
\* resolver yields exactly one segment, from the centroid of the first herd to
\* the centroid of the current herd.
C12_OneSegmentToCurrentHerd ==
    MovedH1ThenH9 =>
        \E e \in TraceOf("s2") :
            traces[e].coords = <<(<<CentroidOf("H1"), CentroidOf("H2")>>)>>

SelectionOps == {"plot_selected_clade", "plot_county", "plot_table_selection", "plot_in_region"}

\* a selection action has assigned the subset and its redraw has completed
SelectedAndRedrawn == last.op \in SelectionOps /\ ~EmptyCladeSelection /\ ~err

\* C13: after a selection action and its redraw, every movement trace and every
\* row of the moves table on display belongs to an animal of the current
\* subset; nothing computed for an earlier selection is still displayed.
C13_MovesOfCurrentSubset ==
    SelectedAndRedrawn =>
        /\ \A e \in 1..Len(traces) : traces[e].tag \in SubsetTags
        /\ \A r \in 1..Len(movesTable) : movesTable[r].Animal_ID \in SubsetTags

\* C14: a category value keeps its colour from one redraw to the next: a
\* marker drawn for a value after a selection has the colour the markers of
\* that value had before it, whatever other values the two subsets hold.
C14_SameValueSameColor ==
    [][\A p \in Range(points), q \in Range(points') :
           p.value = q.value => p.color = q.color]_vars

\* the rows of the subset that are binned into cell c: clustered, with a point
\* that lies within the cell
PointsIn(c) ==
    {k \in 1..Len(sub) : /\ sub[k].snp3 # "-1" /\ ~is_empty(sub[k].geometry)
                         /\ CellOf(sub[k].geometry) = c}

\* C15: every cell of the binning result has at least one point of the subset
\* joined to it, and its value is the value of one of these points.
C15_CellsHavePoints ==
    (last.op = "replot_hexbin" /\ ~err) =>
        \A n \in 1..Len(grid) :
            /\ PointsIn(grid[n].cell) # {}
            /\ \E k \in PointsIn(grid[n].cell) : sub[k].snp3 = grid[n].value
            /\ grid[n].color # -1

\* the bounding box of the binned points spans four cells, two of which hold
\* points and are drawn, while the two without points are not
C15_Witness ==
    /\ last.op = "replot_hexbin" /\ ~err
    /\ Len(grid) = 2
    /\ \E a \in {0, 1}, b \in {0, 1} :
           /\ PointsIn(<<a, b>>) = {}
           /\ \E n \in 1..Len(grid) : grid[n].cell = <<1 - a, b>>
           /\ \E n \in 1..Len(grid) : grid[n].cell = <<a, 1 - b>>

\* the rows of the subset that have no coordinates in the loaded dataset
Unlocated == {k \in 1..Len(sub) : \E i \in 1..Len(cent) :
                 SameSample(cent[i], sub[k]) /\ is_empty(cent[i].geometry)}

SelectedNothing ==
    /\ last.op \in SelectionOps /\ ~EmptyCladeSelection
    /\ "sub" \in has /\ sub = <<>>

\* C17: the redraw that follows a selection of zero rows completes without an
\* error and shows 'no locations available', in every selection mode.
C17_EmptySubsetRedraws == SelectedNothing => (~err /\ message)

\* C18: no selection, redraw, movement resolution or binning changes the full
\* sample dataset, the movement dataset or the parcel datasets.
C18_DatasetsReadOnly ==
    [][last'.op # "load_project" =>
          /\ cent' = cent /\ moves' = moves
          /\ lpis' = lpis /\ lpis_cent' = lpis_cent]_vars

\* a jittered redraw with parcels and movements has moved the points of the
\* subset away from those of the full dataset, which is as it was loaded
C18_Witness ==
    /\ last.op \in SelectionOps /\ ~err
    /\ Options \subseteq opts
    /\ traces # <<>> /\ parcels # <<>>
    /\ \E k \in 1..Len(sub), i \in 1..Len(cent) :
           SameSample(cent[i], sub[k]) /\ cent[i].geometry # sub[k].geometry
    /\ cent = FrameSamples
    /\ moves = ProjectMoves /\ lpis = ProjectParcels /\ lpis_cent = ProjectParcels

\* the datasets the session holds are those of project p and no others
HoldsOnly(p) ==
    /\ has \cap AllKeys = p.keys
    /\ "cent" \in p.keys => cent = p.cent
    /\ "moves" \in p.keys => moves = p.moves
    /\ "lpis" \in p.keys => lpis = p.lpis
    /\ "lpis_cent" \in p.keys => lpis_cent = p.lpis_cent

\* C19: after load_project the sample, movement and parcel datasets of the
\* session all come from one project file, the one that was loaded; no dataset
\* of the project open before is left next to them.
C19_LoadAllOrNothing ==
    (last.op = "load_project" /\ ~err) => \E p \in Projects : HoldsOnly(p)

\* C20: a selection repeated with the same arguments on the same dataset leaves
\* the same subset as the first time: the same rows in the same order with the
\* same geometries, whichever map buttons are checked.
C20_SelectionIdempotent ==
    [][(/\ last.op \in SelectionOps /\ last' = last /\ sel' = sel
        /\ cent' = cent /\ opts' = opts /\ ~err /\ ~err') => sub' = sub]_vars

\* the rows of the subset that hold animal tag
RowsOf(tag) == {k \in 1..Len(sub) : sub[k].Animal_ID = tag}

\* C21: the trace of an animal whose current herd has a parcel centroid ends
\* with that centroid, a waypoint in addition to those of its dated movements.
C21_EndsAtCurrentHerd ==
    (MovesShown /\ ~err) =>
        \A e \in 1..Len(traces) : \A k \in RowsOf(traces[e].tag) :
            HasParcel(sub[k].HERD_NO) =>
                LET w == traces[e].waypoints
                IN  /\ Len(w) > Cardinality(Resolutions(traces[e].tag))
                    /\ \E p \in 1..Len(lpis_cent) :
                           /\ lpis_cent[p].SPH_HERD_N = sub[k].HERD_NO
                           /\ w[Len(w)] = lpis_cent[p].geometry

\* resolution a of an animal comes before resolution b: the earlier movement
\* first, and for equal dates the one met first in the movement dataset, the
\* parcels of one movement in the order of the parcel dataset
Before(a, b) ==
    \/ moves[a[1]].move_date < moves[b[1]].move_date
    \/ /\ moves[a[1]].move_date = moves[b[1]].move_date
       /\ (a[1] < b[1] \/ (a[1] = b[1] /\ a[2] < b[2]))

\* the place of resolution ip among the waypoints of its animal
PlaceOf(tag, ip) == 1 + Cardinality({jq \in Resolutions(tag) : Before(jq, ip)})

\* C22: the waypoints of a trace are those of one animal only, in ascending
\* order of movement date, movements of equal date in their original order.
C22_WaypointsByDate ==
    (MovesShown /\ ~err) =>
        /\ \A e, f \in 1..Len(traces) : traces[e].tag = traces[f].tag => e = f
        /\ \A e \in 1..Len(traces) :
               LET tag == traces[e].tag
                   w == traces[e].waypoints
               IN  /\ Cardinality(RowsOf(tag)) = 1
                   /\ Len(w) = Cardinality(Resolutions(tag))
                   /\ \A ip \in Resolutions(tag) :
                          w[PlaceOf(tag, ip)] = lpis_cent[ip[2]].geometry

\* the later movement of an animal stands first in the movement dataset, and
\* its trace goes from the herd of the earlier one to the herd of the later one
C22_Witness ==
    /\ MovesShown /\ ~err
    /\ moves = <<Move("s1", "H2", 2), Move("s1", "H1", 1)>>
    /\ lpis_cent = ProjectParcels
    /\ \E e \in 1..Len(traces) :
           traces[e].tag = "s1" /\ traces[e].waypoints = <<(<<0, 1>>), (<<2, 2>>)>>

\* the number of rows binned into cell c that have value v
CountIn(c, v) == Cardinality({k \in PointsIn(c) : sub[k].snp3 = v})

\* the cells that hold a clustered point of the subset
BinnedCells ==
    {CellOf(sub[k].geometry) :
        k \in {i \in 1..Len(sub) : sub[i].snp3 # "-1" /\ ~is_empty(sub[i].geometry)}}

\* C23: every cell that holds a point of the binned set has a value, and no
\* other value occurs in the cell more often than it.
C23_DominantValue ==
    (last.op = "replot_hexbin" /\ ~err) =>
        \A c \in BinnedCells :
            \E n \in 1..Len(grid) :
                /\ grid[n].cell = c
                /\ \A j \in PointsIn(c) : CountIn(c, sub[j].snp3) <= CountIn(c, grid[n].value)

\* the animals of the subset whose movements resolve to two or more waypoints
WithSegment == {tag \in SubsetTags : Cardinality(Resolutions(tag)) >= 2}

\* C24: a redraw with the moves button checked draws a trace for every animal
\* with a segment, however many there are, each with a colour of the palette.
C24_ColorIndexInPalette ==
    (last.op \in SelectionOps /\ "moves" \in opts /\ ~EmptyCladeSelection) =>
        /\ ~err
        /\ \A tag \in WithSegment :
               \E e \in TraceOf(tag) :
                   traces[e].coords # <<>> /\ traces[e].color \in 0..(NumColors - 1)

\* C29: when update() has run, a subset exists and each of its rows is a row
\* of the full sample dataset the session holds; the redraw raises no error
\* for want of a subset.
C29_RedrawOfCurrentRows ==
    last.op = "update" =>
        /\ "sub" \in has /\ ~err
        /\ \A k \in 1..Len(sub) : \E i \in 1..Len(cent) : SameSample(cent[i], sub[k])

\* the movement records of animal tag
MovesOf(tag) == {i \in 1..Len(moves) : moves[i].tag = tag}

\* C30: the trace of an animal with m movement records has at most m + 1
\* waypoints, however many parcel centroids the herds it moved to have.
C30_OneWaypointPerMove ==
    (MovesShown /\ ~err) =>
        \A e \in 1..Len(traces) :
            Len(traces[e].waypoints) <= Cardinality(MovesOf(traces[e].tag)) + 1

\* ------------------------------------------------------------ C25 to C28
\* nothing is left to happen for the workers started so far
Quiescent ==
    /\ gui.pc = "idle" /\ events = <<>>
    /\ \A w \in 1..Len(workers) : workers[w].pc = "done"

\* C25: every background process started by run_threaded_process causes
\* processing_completed to run exactly once, after which the progress bar is
\* idle and running is False; whatever the interleaving, once every worker
\* has finished and no call is queued, each worker has had its one call
C25_CompletionRunsOnce ==
    /\ \A w \in 1..Len(workers) : workers[w].calls <= 1
    /\ Quiescent => /\ \A w \in 1..Len(workers) : workers[w].calls = 1
                    /\ bar = "idle"
                    /\ running = FALSE

\* the workers handed to the pool whose run() has not ended
Active == {w \in 1..Len(workers) : workers[w].pc # "done"}

\* C26: at most one background worker is in progress at any time: a request
\* made while an earlier worker has not completed starts no worker
C26_OneWorkerAtATime ==
    Cardinality(Active) <= 1

\* C27: in make_test_data, load_folder runs only after the background
\* simulation has finished: each load found the worker done and the folder
\* written
C27_LoadAfterSimulation ==
    \A n \in 1..Len(loads) : loads[n].worker = "done" /\ loads[n].folder = "written"

\* C28: each Worker.run emits exactly one of result and error (result when the
\* task returned, error when it raised), then finished exactly once as its
\* last signal; a task that raises still ends its run with these signals
C28_OneOutcomeThenFinished ==
    \A w \in 1..Len(workers) :
        LET e == workers[w].emitted
        IN  /\ Len(e) <= 2
            /\ \A i \in 1..Len(e) : e[i] = "finished" <=> i = 2
            /\ Len(e) >= 1 => e[1] = (IF workers[w].outcome = "raised" THEN "error"
                                                                      ELSE "result")
            /\ workers[w].pc = "done" <=> Len(e) = 2
            /\ workers[w].outcome # "none" => workers[w].pc \in {"emit", "done"}

\* a task that raised and a task that returned have both ended their runs
C28_Witness ==
    /\ \E w \in 1..Len(workers) : workers[w].emitted = <<"error", "finished">>
    /\ \E w \in 1..Len(workers) : workers[w].emitted = <<"result", "finished">>

====
